---- MODULE Spec2Model ----
(***************************************************************************)
(* The Sidebar component of src/app/page.tsx (lines 1136-1271): a         *)
(* searchable, categorised, collapsible navigation panel.  Strings are    *)
(* sequences of one-character strings; an optional property of a          *)
(* SidebarItem is a field the record has or lacks.  Further down: the     *)
(* page shell App, and the stateful widgets Collapse, Modal, Drawer,      *)
(* Carousel and Accordion of the same file.                               *)
(***************************************************************************)
EXTENDS Integers, Sequences, FiniteSets, TLC

VARIABLES
    items,          \* props.items: the entry collection supplied by the owner
    collapsed,      \* props.collapsed, owned by the page shell
    expandedItems,  \* useState<string[]>([]): ids of the expanded entries
    searchQuery,    \* useState(''): the filter text
    lastEvent,      \* the event handled last: [op, id]
    fired,          \* the caller-supplied callbacks the last event invoked,
                    \* one element per invocation, in order
    oddClicks,      \* history: ids of the entries with a children property
                    \* whose rows were clicked an odd number of times
    activeComponent,    \* App: useState('button')
    lastSelected,       \* history: the id whose onClick the page shell
                        \* handled last ("" before any selection)
    toggleClicksOdd,    \* history: the display-mode control was clicked an
                        \* odd number of times
    rowsBeforeToggle,   \* history: the rows rendered just before the last
                        \* event, when that event was a display-mode click
    isOpen,         \* Collapse: props.isOpen
    height,         \* Collapse: useState(isOpen ? undefined : 0)
    timers,         \* Collapse: the pending setTimeout callbacks, in the
                    \* order they were scheduled
    isModalOpen,    \* App: useState(false), the Modal's isOpen
    isDrawerOpen,   \* App: useState(false), the Drawer's isOpen
    slideCount,     \* Carousel: children.length
    autoPlay,       \* Carousel: props.autoPlay
    showIndicators, \* Carousel: props.showIndicators
    currentIndex,   \* Carousel: useState(0)
    accordionItems, \* Accordion: props.items
    allowMultiple,  \* Accordion: props.allowMultiple
    defaultOpen,    \* Accordion: props.defaultOpen
    openItems       \* Accordion: useState<string[]>(defaultOpen)

\* The variables of the Sidebar and of the page shell around it.
panelVars ==
    <<items, collapsed, expandedItems, searchQuery, lastEvent, fired, oddClicks,
      activeComponent, lastSelected, toggleClicksOdd, rowsBeforeToggle>>

collapseVars == <<isOpen, height, timers>>
overlayVars == <<isModalOpen, isDrawerOpen>>
carouselVars == <<slideCount, autoPlay, showIndicators, currentIndex>>
accordionVars == <<accordionItems, allowMultiple, defaultOpen, openItems>>

\* The variables of the widgets outside the Sidebar.
widgetVars == <<collapseVars, overlayVars, carouselVars, accordionVars>>

vars == <<panelVars, widgetVars>>

\* The values of height: 0, undefined (auto), and contentRef's scrollHeight.
HeightZero == "0"
HeightUnset == "undefined"
HeightMeasured == "scrollHeight"

\* No Collapse is mounted.
CollapseAbsent == isOpen = FALSE /\ height = HeightZero /\ timers = <<>>

\* Modal and Drawer as the page shell first renders them: both closed.
OverlaysClosed == isModalOpen = FALSE /\ isDrawerOpen = FALSE

\* No Carousel is mounted.
CarouselAbsent ==
    /\ slideCount = 0
    /\ autoPlay = FALSE
    /\ showIndicators = FALSE
    /\ currentIndex = 0

\* No Accordion is mounted.
AccordionAbsent ==
    /\ accordionItems = <<>>
    /\ allowMultiple = FALSE
    /\ defaultOpen = <<>>
    /\ openItems = <<>>

\* No Sidebar is mounted and no page shell around it.
PanelAbsent ==
    /\ items = <<>>
    /\ collapsed = FALSE
    /\ expandedItems = <<>>
    /\ searchQuery = <<>>
    /\ lastEvent = [op |-> "mount", id |-> ""]
    /\ fired = <<>>
    /\ oddClicks = {}
    /\ activeComponent = "button"
    /\ lastSelected = ""
    /\ toggleClicksOdd = FALSE
    /\ rowsBeforeToggle = <<>>

(***************************************************************************)
(* Bounds of the model.                                                    *)
(***************************************************************************)
MaxItems == 2       \* length of the entry collection
MaxQueryLen == 2    \* length of a filter text typed into the search input

(***************************************************************************)
(* Strings.                                                                *)
(***************************************************************************)
\* The letters String.prototype.toLowerCase changes, among those in use.
UpperToLower ==
    ("A" :> "a") @@ ("B" :> "b") @@ ("C" :> "c") @@ ("D" :> "d")
    @@ ("E" :> "e") @@ ("F" :> "f") @@ ("G" :> "g") @@ ("H" :> "h")
    @@ ("I" :> "i") @@ ("J" :> "j") @@ ("K" :> "k") @@ ("L" :> "l")
    @@ ("M" :> "m") @@ ("N" :> "n") @@ ("O" :> "o") @@ ("P" :> "p")
    @@ ("Q" :> "q") @@ ("R" :> "r") @@ ("S" :> "s") @@ ("T" :> "t")
    @@ ("U" :> "u") @@ ("V" :> "v") @@ ("W" :> "w") @@ ("X" :> "x")
    @@ ("Y" :> "y") @@ ("Z" :> "z")

\* One character of String.prototype.toLowerCase.
toLowerCaseChar(c) == IF c \in DOMAIN UpperToLower THEN UpperToLower[c] ELSE c

\* String.prototype.toLowerCase.
toLowerCase(s) == [i \in 1..Len(s) |-> toLowerCaseChar(s[i])]

\* String.prototype.includes: t occurs in s as a contiguous substring.
StrIncludes(s, t) ==
    \E i \in 0..(Len(s) - Len(t)) : SubSeq(s, i + 1, i + Len(t)) = t

\* Array.prototype.includes.
ArrIncludes(arr, x) == \E i \in 1..Len(arr) : arr[i] = x

\* Array.prototype.filter with the predicate "item !== x".
RECURSIVE ArrWithout(_, _)
ArrWithout(arr, x) ==
    IF arr = <<>> THEN <<>>
    ELSE (IF Head(arr) # x THEN <<Head(arr)>> ELSE <<>>) \o ArrWithout(Tail(arr), x)

(***************************************************************************)
(* SidebarItem values.  The optional properties category, children,       *)
(* badge, icon and onClick are present in a record or absent from it.     *)
(***************************************************************************)
Has(item, prop) == prop \in DOMAIN item

\* JavaScript truthiness of item.children: an array, even an empty one.
ChildrenTruthy(item) == Has(item, "children")

\* JavaScript truthiness of a string (category, searchQuery, badge).
StrTruthy(s) == s # <<>>

QueryChars == {"h", "E"}

RECURSIVE StringsUpTo(_, _)
StringsUpTo(chars, n) ==
    IF n = 0 THEN {<<>>}
    ELSE LET shorter == StringsUpTo(chars, n - 1)
         IN  shorter \cup {Append(s, c) : s \in shorter, c \in chars}

\* The texts the search input can hold.
Queries == StringsUpTo(QueryChars, MaxQueryLen)

LeafD1 == [id |-> "d1", label |-> <<"H", "e">>, onClick |-> TRUE]
LeafD3 == [id |-> "d3", label |-> <<"b">>, onClick |-> TRUE]
GroupD2 == [id |-> "d2", label |-> <<"e">>, onClick |-> TRUE,
            children |-> <<LeafD3>>]

\* The entries an owner may put at the top level of props.items.
EntryPool ==
    { [id |-> "a", label |-> <<"H", "e">>, category |-> <<"b">>,
       icon |-> TRUE, badge |-> <<"3">>, onClick |-> TRUE],
      [id |-> "b", label |-> <<"b">>, category |-> <<"E", "h">>,
       icon |-> TRUE, onClick |-> TRUE],
      [id |-> "c", label |-> <<"e", "h">>, onClick |-> TRUE,
       children |-> <<LeafD1>>],
      [id |-> "d", label |-> <<"h">>, category |-> <<"b">>,
       icon |-> TRUE, onClick |-> TRUE, children |-> <<LeafD1, GroupD2>>],
      [id |-> "e", label |-> <<"E">>, category |-> <<"E", "h">>,
       onClick |-> TRUE, children |-> <<>>] }

RECURSIVE SeqsUpTo(_, _)
SeqsUpTo(S, n) ==
    IF n = 0 THEN {<<>>}
    ELSE LET shorter == SeqsUpTo(S, n - 1)
         IN  shorter \cup {Append(s, e) : s \in shorter, e \in S}

\* The entry collections an owner may supply.
ItemLists == SeqsUpTo(EntryPool, MaxItems)

(***************************************************************************)
(* Sidebar: state update and derived values.                               *)
(***************************************************************************)
\* A toggle that never removes: [...prev, id] on both branches.
toggleExpanded_AppendOnly(prev, id) == Append(prev, id)

\* A toggle that empties the array when it closes an id.
toggleExpanded_ClosesAll(prev, id) ==
    IF ArrIncludes(prev, id) THEN <<>> ELSE Append(prev, id)

\* toggleExpanded's updater: prev.includes(id) ? prev.filter(...) : [...prev, id]
toggleExpanded(prev, id) ==
    IF ArrIncludes(prev, id) THEN ArrWithout(prev, id) ELSE Append(prev, id)

\* A predicate that lower-cases the entry's text but not the filter text.
FilterPredicate_RawQuery(item, query) ==
    \/ StrIncludes(toLowerCase(item.label), query)
    \/ /\ Has(item, "category")
       /\ StrIncludes(toLowerCase(item.category), query)

\* A predicate that joins the two matches with && instead of ||.
FilterPredicate_And(item, query) ==
    /\ StrIncludes(toLowerCase(item.label), toLowerCase(query))
    /\ Has(item, "category")
    /\ StrIncludes(toLowerCase(item.category), toLowerCase(query))

\* A predicate that also keeps an entry one of whose children matches.
FilterPredicate_OrAnyChild(item, query) ==
    \/ StrIncludes(toLowerCase(item.label), toLowerCase(query))
    \/ /\ Has(item, "category")
       /\ StrIncludes(toLowerCase(item.category), toLowerCase(query))
    \/ /\ Has(item, "children")
       /\ \E k \in 1..Len(item.children) :
             StrIncludes(toLowerCase(item.children[k].label), toLowerCase(query))

\* The predicate of filteredItems: label match || category?.match.
FilterPredicate(item, query) ==
    \/ StrIncludes(toLowerCase(item.label), toLowerCase(query))
    \/ /\ Has(item, "category")
       /\ StrIncludes(toLowerCase(item.category), toLowerCase(query))

\* A filter that removes in place while it walks forward, so the entry after
\* each removed one is never tested.
RECURSIVE FilterItems_Splice(_, _)
FilterItems_Splice(list, query) ==
    IF list = <<>> THEN <<>>
    ELSE IF FilterPredicate(Head(list), query)
         THEN <<Head(list)>> \o FilterItems_Splice(Tail(list), query)
         ELSE IF Len(list) = 1 THEN <<>>
              ELSE <<list[2]>> \o FilterItems_Splice(Tail(Tail(list)), query)

\* Array.prototype.filter over the entries, in index order.
RECURSIVE FilterItems(_, _)
FilterItems(list, query) ==
    IF list = <<>> THEN <<>>
    ELSE (IF FilterPredicate(Head(list), query) THEN <<Head(list)>> ELSE <<>>)
         \o FilterItems(Tail(list), query)

\* const filteredItems = items.filter(...)
filteredItems == FilterItems(items, searchQuery)

\* The fixed unit of left inset per nesting level, and the base inset (px).
IndentUnit == 12
BaseInset == 12

\* A row whose inset ignores the nesting level: paddingLeft: '12px'.
Row_FlatInset(item, level) ==
    [ item        |-> item,
      level       |-> level,
      paddingLeft |-> BaseInset,
      icon        |-> Has(item, "icon"),
      label       |-> ~collapsed,
      badge       |-> ~collapsed /\ Has(item, "badge") /\ StrTruthy(item.badge),
      indicator   |-> ~collapsed /\ ChildrenTruthy(item),
      rotated     |-> ~collapsed /\ ChildrenTruthy(item)
                      /\ ArrIncludes(expandedItems, item.id) ]

\* The <button> of renderSidebarItem: one row, with what it shows.
Row(item, level) ==
    [ item        |-> item,
      level       |-> level,
      paddingLeft |-> level * IndentUnit + BaseInset,
      icon        |-> Has(item, "icon"),
      label       |-> ~collapsed,
      badge       |-> ~collapsed /\ Has(item, "badge") /\ StrTruthy(item.badge),
      indicator   |-> ~collapsed /\ ChildrenTruthy(item),
      rotated     |-> ~collapsed /\ ChildrenTruthy(item)
                      /\ ArrIncludes(expandedItems, item.id) ]

\* Children rendered whether or not the entry's id is in expandedItems.
ChildrenShown_Always(item) == ~collapsed /\ ChildrenTruthy(item)

\* Children rendered without the !collapsed guard.
ChildrenShown_WhenCollapsed(item) ==
    ChildrenTruthy(item) /\ ArrIncludes(expandedItems, item.id)

\* Children rendered only for the first top-level entry that bears an id.
ChildrenShown_FirstBearerOnly(item) ==
    /\ ~collapsed
    /\ ChildrenTruthy(item)
    /\ ArrIncludes(expandedItems, item.id)
    /\ ~\E i, j \in 1..Len(items) :
          i < j /\ items[j] = item /\ items[i].id = item.id

\* The condition under which renderSidebarItem renders an entry's children.
ChildrenShown(item) ==
    ~collapsed /\ ChildrenTruthy(item) /\ ArrIncludes(expandedItems, item.id)

\* renderSidebarItem: the rows an entry renders, its own first, then those of
\* its children when they are shown, each one level deeper.
RECURSIVE renderSidebarItem(_, _)
RECURSIVE renderSidebarItems(_, _)
renderSidebarItem(item, level) ==
    <<Row(item, level)>>
    \o (IF ChildrenShown(item)
        THEN renderSidebarItems(item.children, level + 1)
        ELSE <<>>)

\* list.map(entry => renderSidebarItem(entry, level)), flattened to rows.
renderSidebarItems(list, level) ==
    IF list = <<>> THEN <<>>
    ELSE renderSidebarItem(Head(list), level)
         \o renderSidebarItems(Tail(list), level)

\* items.map(item => item.category).filter(Boolean), in index order.
RECURSIVE TruthyCategories(_)
TruthyCategories(list) ==
    IF list = <<>> THEN <<>>
    ELSE (IF Has(Head(list), "category") /\ StrTruthy(Head(list).category)
          THEN <<Head(list).category>> ELSE <<>>)
         \o TruthyCategories(Tail(list))

\* A deduplication that lists the distinct values latest-first.
RECURSIVE SetOrder_Prepends(_, _)
SetOrder_Prepends(seq, seen) ==
    IF seq = <<>> THEN <<>>
    ELSE IF Head(seq) \in seen THEN SetOrder_Prepends(Tail(seq), seen)
         ELSE SetOrder_Prepends(Tail(seq), seen \cup {Head(seq)}) \o <<Head(seq)>>

\* [...new Set(seq)]: the distinct values in order of first occurrence.
RECURSIVE SetOrder(_, _)
SetOrder(seq, seen) ==
    IF seq = <<>> THEN <<>>
    ELSE IF Head(seq) \in seen THEN SetOrder(Tail(seq), seen)
         ELSE <<Head(seq)>> \o SetOrder(Tail(seq), seen \cup {Head(seq)})

\* const categories = [...new Set(items.map(...).filter(Boolean))]
categories == SetOrder(TruthyCategories(items), {})

\* filteredItems.filter(item => item.category === category)
RECURSIVE ItemsOfCategory(_, _)
ItemsOfCategory(list, category) ==
    IF list = <<>> THEN <<>>
    ELSE (IF Has(Head(list), "category") /\ Head(list).category = category
          THEN <<Head(list)>> ELSE <<>>)
         \o ItemsOfCategory(Tail(list), category)

\* One <div key={category}>: its heading and the rows of its entries.
CategoryGroup(filtered, category) ==
    [ heading |-> category,
      rows    |-> renderSidebarItems(ItemsOfCategory(filtered, category), 0) ]

\* categories.map(category => ...): the groups of the <nav>, in order.
NavGroups ==
    LET cats == categories
        filtered == filteredItems
    IN  [k \in 1..Len(cats) |-> CategoryGroup(filtered, cats[k])]

\* An indicator that reports items.length instead of filteredItems.length.
ResultsIndicator_CountsAll ==
    IF StrTruthy(searchQuery)
    THEN <<[count |-> Len(items), query |-> searchQuery]>>
    ELSE <<>>

\* The "N results for q" line: rendered when searchQuery is truthy.
ResultsIndicator ==
    IF StrTruthy(searchQuery)
    THEN <<[count |-> Len(filteredItems), query |-> searchQuery]>>
    ELSE <<>>

\* A message shown only when the owner supplied no entries at all.
EmptyMessageShown_WhenNoEntries == Len(items) = 0

\* The "No components found" message.
EmptyMessageShown == Len(filteredItems) = 0

\* A search <input> rendered in both display modes.
SearchInputShown_Always == TRUE

\* The search <input> is rendered only when the panel is not collapsed.
SearchInputShown == ~collapsed

\* value={searchQuery}: the text the rendered search <input> shows.
SearchInputValue == searchQuery

\* The category headings the <nav> renders, in order.
RenderedHeadings ==
    LET groups == NavGroups
    IN  [k \in 1..Len(groups) |-> groups[k].heading]

\* All rows the <nav> renders, in order.
RECURSIVE ConcatRows(_)
ConcatRows(groups) ==
    IF groups = <<>> THEN <<>>
    ELSE Head(groups).rows \o ConcatRows(Tail(groups))

RenderedRows == ConcatRows(NavGroups)

\* The entries that have a click target (a rendered <button>).
ClickTargets ==
    LET rows == RenderedRows
    IN  {rows[k].item : k \in 1..Len(rows)}

(***************************************************************************)
(* Events.                                                                 *)
(***************************************************************************)
Init ==
    /\ items \in ItemLists
    /\ collapsed = FALSE
    /\ expandedItems = <<>>
    /\ searchQuery = <<>>
    /\ lastEvent = [op |-> "mount", id |-> ""]
    /\ fired = <<>>
    /\ oddClicks = {}
    /\ activeComponent = "button"
    /\ lastSelected = ""
    /\ toggleClicksOdd = FALSE
    /\ rowsBeforeToggle = <<>>
    /\ CollapseAbsent
    /\ OverlaysClosed
    /\ CarouselAbsent
    /\ AccordionAbsent

\* The history of clicks after a click on the row of an entry.
ClickHistory(item) ==
    IF Has(item, "children")
    THEN (oddClicks \ {item.id}) \cup ({item.id} \ oddClicks)
    ELSE oddClicks

\* The branch of a row's onClick: toggleExpanded when item.children is truthy.
ClickToggles(item) == ChildrenTruthy(item)

\* A click handler that toggles a group and calls its onClick as well.
RowClick_AlsoSelects(item) ==
    /\ expandedItems' = IF ClickToggles(item)
                        THEN toggleExpanded(expandedItems, item.id)
                        ELSE expandedItems
    /\ fired' = IF Has(item, "onClick") THEN <<(<<"onClick", item.id>>)>> ELSE <<>>
    /\ lastEvent' = [op |-> "click", id |-> item.id]
    /\ oddClicks' = ClickHistory(item)
    /\ rowsBeforeToggle' = <<>>
    /\ UNCHANGED searchQuery

\* onClick of a rendered row's <button>: what it does to the panel's state
\* and which callback it invokes.  Only rendered rows can be clicked: Next
\* draws item from ClickTargets.
RowClick(item) ==
    /\ IF ClickToggles(item)
       THEN /\ expandedItems' = toggleExpanded(expandedItems, item.id)
            /\ fired' = <<>>
       ELSE /\ expandedItems' = expandedItems
            /\ fired' = IF Has(item, "onClick")
                        THEN <<(<<"onClick", item.id>>)>> ELSE <<>>
    /\ lastEvent' = [op |-> "click", id |-> item.id]
    /\ oddClicks' = ClickHistory(item)
    /\ rowsBeforeToggle' = <<>>
    /\ UNCHANGED searchQuery

\* A click on a row when the owner's callbacks leave the props as they are.
ClickItem(item) ==
    /\ RowClick(item)
    /\ UNCHANGED <<items, collapsed, activeComponent, lastSelected,
                   toggleClicksOdd, widgetVars>>

\* An onChange that also closes every group: setExpandedItems([]).
SetSearchQuery_ClosesGroups(text) ==
    /\ SearchInputShown
    /\ text # searchQuery
    /\ searchQuery' = text
    /\ expandedItems' = <<>>
    /\ lastEvent' = [op |-> "search", id |-> ""]
    /\ fired' = <<>>
    /\ rowsBeforeToggle' = <<>>
    /\ UNCHANGED <<items, collapsed, oddClicks,
                   activeComponent, lastSelected, toggleClicksOdd,
                   widgetVars>>

\* onChange of the search input: setSearchQuery(e.target.value).
SetSearchQuery(text) ==
    /\ SearchInputShown
    /\ text # searchQuery
    /\ searchQuery' = text
    /\ lastEvent' = [op |-> "search", id |-> ""]
    /\ fired' = <<>>
    /\ rowsBeforeToggle' = <<>>
    /\ UNCHANGED <<items, collapsed, expandedItems, oddClicks,
                   activeComponent, lastSelected, toggleClicksOdd,
                   widgetVars>>

\* A header button whose handler calls onToggle twice on one click.
ToggleDisplayMode_CallsTwice ==
    /\ collapsed' = collapsed
    /\ lastEvent' = [op |-> "toggle", id |-> ""]
    /\ fired' = <<(<<"onToggle", "">>), (<<"onToggle", "">>)>>
    /\ toggleClicksOdd' = ~toggleClicksOdd
    /\ rowsBeforeToggle' = RenderedRows
    /\ UNCHANGED <<items, expandedItems, searchQuery, oddClicks,
                   activeComponent, lastSelected, widgetVars>>

\* onClick of the header button: onToggle, which the page shell answers with
\* setSidebarCollapsed(!sidebarCollapsed).
ToggleDisplayMode ==
    /\ collapsed' = ~collapsed
    /\ lastEvent' = [op |-> "toggle", id |-> ""]
    /\ fired' = <<(<<"onToggle", "">>)>>
    /\ toggleClicksOdd' = ~toggleClicksOdd
    /\ rowsBeforeToggle' = RenderedRows
    /\ UNCHANGED <<items, expandedItems, searchQuery, oddClicks,
                   activeComponent, lastSelected, widgetVars>>

Next ==
    \/ \E item \in ClickTargets : ClickItem(item)
    \/ \E text \in Queries : SetSearchQuery(text)
    \/ ToggleDisplayMode

Spec == Init /\ [][Next]_vars

(***************************************************************************)
(* Entry collections in which group entries share an id.  The Sidebar      *)
(* takes them as they are: nothing in it compares the ids of its entries.  *)
(***************************************************************************)
\* A group with the id of the pool's group "d", in another category.
GroupDTwin == [id |-> "d", label |-> <<"E">>, category |-> <<"E", "h">>,
               icon |-> TRUE, onClick |-> TRUE, children |-> <<LeafD3>>]

\* A group whose only child is a group with the parent's id.
GroupD2Parent == [id |-> "d2", label |-> <<"h">>, category |-> <<"E", "h">>,
                  icon |-> TRUE, onClick |-> TRUE, children |-> <<GroupD2>>]

\* The pool's group "d": its children are a leaf and the group "d2".
GroupD == CHOOSE e \in EntryPool : e.id = "d"

DuplicateIdPool == {GroupD, GroupDTwin, GroupD2Parent}

\* key={item.id}: the rows of one category group are siblings under one
\* parent, and React leaves the reconciliation of siblings with equal keys
\* unspecified; the collections here give no two siblings the same key.
SiblingKeysDistinct(list) ==
    \A i, j \in 1..Len(list) :
        (i # j /\ list[i].category = list[j].category) => list[i].id # list[j].id

DuplicateIdLists ==
    {list \in SeqsUpTo(DuplicateIdPool, MaxItems) :
        list # <<>> /\ SiblingKeysDistinct(list)}

DuplicateIdInit ==
    /\ items \in DuplicateIdLists
    /\ collapsed = FALSE
    /\ expandedItems = <<>>
    /\ searchQuery = <<>>
    /\ lastEvent = [op |-> "mount", id |-> ""]
    /\ fired = <<>>
    /\ oddClicks = {}
    /\ activeComponent = "button"
    /\ lastSelected = ""
    /\ toggleClicksOdd = FALSE
    /\ rowsBeforeToggle = <<>>
    /\ CollapseAbsent
    /\ OverlaysClosed
    /\ CarouselAbsent
    /\ AccordionAbsent

DuplicateIdSpec == DuplicateIdInit /\ [][Next]_vars

(***************************************************************************)
(* The page shell: App (src/app/page.tsx 4513-9563) mounts the Sidebar     *)
(* with its own entry collection and answers its callbacks.                *)
(***************************************************************************)
\* The category tags of the page shell's entries.
CategoryComponents == <<"c", "o", "m", "p", "o", "n", "e", "n", "t", "s">>
CategoryBlocks == <<"b", "l", "o", "c", "k", "s">>

\* The entries of App's sidebarItems literal, in source order: the id, the
\* label, the category, the id that "active" compares activeComponent with,
\* and the id the entry's onClick passes to setActiveComponent.
AppEntryTable ==
    <<
      [id |-> "button", label |-> <<"B", "u", "t", "t", "o", "n">>,
        category |-> CategoryComponents, activeWhen |-> "button", selects |-> "button"],
      [id |-> "avatar", label |-> <<"A", "v", "a", "t", "a", "r">>,
        category |-> CategoryComponents, activeWhen |-> "avatar", selects |-> "avatar"],
      [id |-> "modal", label |-> <<"M", "o", "d", "a", "l">>,
        category |-> CategoryComponents, activeWhen |-> "modal", selects |-> "modal"],
      [id |-> "dropdown", label |-> <<"D", "r", "o", "p", "d", "o", "w", "n">>,
        category |-> CategoryComponents, activeWhen |-> "dropdown", selects |-> "dropdown"],
      [id |-> "table", label |-> <<"T", "a", "b", "l", "e">>,
        category |-> CategoryComponents, activeWhen |-> "table", selects |-> "table"],
      [id |-> "badge", label |-> <<"B", "a", "d", "g", "e">>,
        category |-> CategoryComponents, activeWhen |-> "badge", selects |-> "badge"],
      [id |-> "input", label |-> <<"I", "n", "p", "u", "t">>,
        category |-> CategoryComponents, activeWhen |-> "input", selects |-> "input"],
      [id |-> "card", label |-> <<"C", "a", "r", "d">>,
        category |-> CategoryComponents, activeWhen |-> "card", selects |-> "card"],
      [id |-> "alert", label |-> <<"A", "l", "e", "r", "t">>,
        category |-> CategoryComponents, activeWhen |-> "alert", selects |-> "alert"],
      [id |-> "tabs", label |-> <<"T", "a", "b", "s">>,
        category |-> CategoryComponents, activeWhen |-> "tabs", selects |-> "tabs"],
      [id |-> "pagination", label |-> <<"P", "a", "g", "i", "n", "a", "t", "i", "o", "n">>,
        category |-> CategoryComponents, activeWhen |-> "pagination", selects |-> "pagination"],
      [id |-> "tooltip", label |-> <<"T", "o", "o", "l", "t", "i", "p">>,
        category |-> CategoryComponents, activeWhen |-> "tooltip", selects |-> "tooltip"],
      [id |-> "progress", label |-> <<"P", "r", "o", "g", "r", "e", "s", "s">>,
        category |-> CategoryComponents, activeWhen |-> "progress", selects |-> "progress"],
      [id |-> "toggle", label |-> <<"T", "o", "g", "g", "l", "e">>,
        category |-> CategoryComponents, activeWhen |-> "toggle", selects |-> "toggle"],
      [id |-> "chip", label |-> <<"C", "h", "i", "p">>,
        category |-> CategoryComponents, activeWhen |-> "chip", selects |-> "chip"],
      [id |-> "steps", label |-> <<"S", "t", "e", "p", "s">>,
        category |-> CategoryComponents, activeWhen |-> "steps", selects |-> "steps"],
      [id |-> "breadcrumb", label |-> <<"B", "r", "e", "a", "d", "c", "r", "u", "m", "b">>,
        category |-> CategoryComponents, activeWhen |-> "breadcrumb", selects |-> "breadcrumb"],
      [id |-> "skeleton", label |-> <<"S", "k", "e", "l", "e", "t", "o", "n">>,
        category |-> CategoryComponents, activeWhen |-> "skeleton", selects |-> "skeleton"],
      [id |-> "empty", label |-> <<"E", "m", "p", "t", "y", " ", "S", "t", "a", "t", "e">>,
        category |-> CategoryComponents, activeWhen |-> "empty", selects |-> "empty"],
      [id |-> "accordion", label |-> <<"A", "c", "c", "o", "r", "d", "i", "o", "n">>,
        category |-> CategoryComponents, activeWhen |-> "accordion", selects |-> "accordion"],
      [id |-> "select", label |-> <<"S", "e", "l", "e", "c", "t">>,
        category |-> CategoryComponents, activeWhen |-> "select", selects |-> "select"],
      [id |-> "textarea", label |-> <<"T", "e", "x", "t", "a", "r", "e", "a">>,
        category |-> CategoryComponents, activeWhen |-> "textarea", selects |-> "textarea"],
      [id |-> "checkbox", label |-> <<"C", "h", "e", "c", "k", "b", "o", "x">>,
        category |-> CategoryComponents, activeWhen |-> "checkbox", selects |-> "checkbox"],
      [id |-> "radio", label |-> <<"R", "a", "d", "i", "o">>,
        category |-> CategoryComponents, activeWhen |-> "radio", selects |-> "radio"],
      [id |-> "slider", label |-> <<"S", "l", "i", "d", "e", "r">>,
        category |-> CategoryComponents, activeWhen |-> "slider", selects |-> "slider"],
      [id |-> "rating", label |-> <<"R", "a", "t", "i", "n", "g">>,
        category |-> CategoryComponents, activeWhen |-> "rating", selects |-> "rating"],
      [id |-> "upload", label |-> <<"U", "p", "l", "o", "a", "d">>,
        category |-> CategoryComponents, activeWhen |-> "upload", selects |-> "upload"],
      [id |-> "divider", label |-> <<"D", "i", "v", "i", "d", "e", "r">>,
        category |-> CategoryComponents, activeWhen |-> "divider", selects |-> "divider"],
      [id |-> "list", label |-> <<"L", "i", "s", "t">>,
        category |-> CategoryComponents, activeWhen |-> "list", selects |-> "list"],
      [id |-> "timeline", label |-> <<"T", "i", "m", "e", "l", "i", "n", "e">>,
        category |-> CategoryComponents, activeWhen |-> "timeline", selects |-> "timeline"],
      [id |-> "tag", label |-> <<"T", "a", "g">>,
        category |-> CategoryComponents, activeWhen |-> "tag", selects |-> "tag"],
      [id |-> "notification", label |-> <<"N", "o", "t", "i", "f", "i", "c", "a", "t", "i", "o", "n">>,
        category |-> CategoryComponents, activeWhen |-> "notification", selects |-> "notification"],
      [id |-> "spinner", label |-> <<"S", "p", "i", "n", "n", "e", "r">>,
        category |-> CategoryComponents, activeWhen |-> "spinner", selects |-> "spinner"],
      [id |-> "calendar", label |-> <<"C", "a", "l", "e", "n", "d", "a", "r">>,
        category |-> CategoryComponents, activeWhen |-> "calendar", selects |-> "calendar"],
      [id |-> "datepicker", label |-> <<"D", "a", "t", "e", " ", "P", "i", "c", "k", "e", "r">>,
        category |-> CategoryComponents, activeWhen |-> "datepicker", selects |-> "datepicker"],
      [id |-> "carousel", label |-> <<"C", "a", "r", "o", "u", "s", "e", "l">>,
        category |-> CategoryComponents, activeWhen |-> "carousel", selects |-> "carousel"],
      [id |-> "kpicard", label |-> <<"K", "P", "I", " ", "C", "a", "r", "d">>,
        category |-> CategoryComponents, activeWhen |-> "kpicard", selects |-> "kpicard"],
      [id |-> "meter", label |-> <<"M", "e", "t", "e", "r">>,
        category |-> CategoryComponents, activeWhen |-> "meter", selects |-> "meter"],
      [id |-> "statistic", label |-> <<"S", "t", "a", "t", "i", "s", "t", "i", "c">>,
        category |-> CategoryComponents, activeWhen |-> "statistic", selects |-> "statistic"],
      [id |-> "form", label |-> <<"F", "o", "r", "m">>,
        category |-> CategoryComponents, activeWhen |-> "form", selects |-> "form"],
      [id |-> "formfield", label |-> <<"F", "o", "r", "m", " ", "F", "i", "e", "l", "d">>,
        category |-> CategoryComponents, activeWhen |-> "formfield", selects |-> "formfield"],
      [id |-> "formgroup", label |-> <<"F", "o", "r", "m", " ", "G", "r", "o", "u", "p">>,
        category |-> CategoryComponents, activeWhen |-> "formgroup", selects |-> "formgroup"],
      [id |-> "actionsheet", label |-> <<"A", "c", "t", "i", "o", "n", " ", "S", "h", "e", "e", "t">>,
        category |-> CategoryComponents, activeWhen |-> "actionsheet", selects |-> "actionsheet"],
      [id |-> "drawer", label |-> <<"D", "r", "a", "w", "e", "r">>,
        category |-> CategoryComponents, activeWhen |-> "drawer", selects |-> "drawer"],
      [id |-> "popup", label |-> <<"P", "o", "p", "u", "p">>,
        category |-> CategoryComponents, activeWhen |-> "popup", selects |-> "popup"],
      [id |-> "collapse", label |-> <<"C", "o", "l", "l", "a", "p", "s", "e">>,
        category |-> CategoryComponents, activeWhen |-> "collapse", selects |-> "collapse"],
      [id |-> "tree", label |-> <<"T", "r", "e", "e">>,
        category |-> CategoryComponents, activeWhen |-> "tree", selects |-> "tree"],
      [id |-> "masonry", label |-> <<"M", "a", "s", "o", "n", "r", "y">>,
        category |-> CategoryComponents, activeWhen |-> "masonry", selects |-> "masonry"],
      [id |-> "image", label |-> <<"I", "m", "a", "g", "e">>,
        category |-> CategoryComponents, activeWhen |-> "image", selects |-> "image"],
      [id |-> "hero", label |-> <<"H", "e", "r", "o">>,
        category |-> CategoryBlocks, activeWhen |-> "hero", selects |-> "hero"],
      [id |-> "header", label |-> <<"H", "e", "a", "d", "e", "r">>,
        category |-> CategoryBlocks, activeWhen |-> "header", selects |-> "header"],
      [id |-> "navbar", label |-> <<"N", "a", "v", "b", "a", "r">>,
        category |-> CategoryBlocks, activeWhen |-> "navbar", selects |-> "navbar"],
      [id |-> "footer", label |-> <<"F", "o", "o", "t", "e", "r">>,
        category |-> CategoryBlocks, activeWhen |-> "footer", selects |-> "footer"],
      [id |-> "team", label |-> <<"T", "e", "a", "m">>,
        category |-> CategoryBlocks, activeWhen |-> "team", selects |-> "team"],
      [id |-> "cta", label |-> <<"C", "T", "A">>,
        category |-> CategoryBlocks, activeWhen |-> "cta", selects |-> "cta"],
      [id |-> "faq", label |-> <<"F", "A", "Q">>,
        category |-> CategoryBlocks, activeWhen |-> "faq", selects |-> "faq"],
      [id |-> "authcard", label |-> <<"A", "u", "t", "h", " ", "C", "a", "r", "d">>,
        category |-> CategoryBlocks, activeWhen |-> "authcard", selects |-> "authcard"],
      [id |-> "testimonial", label |-> <<"T", "e", "s", "t", "i", "m", "o", "n", "i", "a", "l">>,
        category |-> CategoryBlocks, activeWhen |-> "testimonial", selects |-> "testimonial"],
      [id |-> "pricingcard", label |-> <<"P", "r", "i", "c", "i", "n", "g", " ", "C", "a", "r", "d">>,
        category |-> CategoryBlocks, activeWhen |-> "pricingcard", selects |-> "pricingcard"],
      [id |-> "featurecard", label |-> <<"F", "e", "a", "t", "u", "r", "e", " ", "C", "a", "r", "d">>,
        category |-> CategoryBlocks, activeWhen |-> "featurecard", selects |-> "featurecard"],
      [id |-> "layoutsidebar", label |-> <<"L", "a", "y", "o", "u", "t", " ", "S", "i", "d", "e", "b", "a", "r">>,
        category |-> CategoryBlocks, activeWhen |-> "layoutsidebar", selects |-> "layoutsidebar"],
      [id |-> "settingssidebar", label |-> <<"S", "e", "t", "t", "i", "n", "g", "s", " ", "S", "i", "d", "e", "b", "a", "r">>,
        category |-> CategoryBlocks, activeWhen |-> "settingssidebar", selects |-> "settingssidebar"],
      [id |-> "dashboardsidebar", label |-> <<"D", "a", "s", "h", "b", "o", "a", "r", "d", " ", "S", "i", "d", "e", "b", "a", "r">>,
        category |-> CategoryBlocks, activeWhen |-> "dashboardsidebar", selects |-> "dashboardsidebar"] >>

\* An entry list in which the 'button' entry is active whatever is selected.
sidebarItems_ButtonAlwaysActive(active) ==
    [k \in 1..Len(AppEntryTable) |->
        [ id       |-> AppEntryTable[k].id,
          label    |-> AppEntryTable[k].label,
          icon     |-> TRUE,
          active   |-> (active = AppEntryTable[k].activeWhen
                        \/ AppEntryTable[k].id = "button"),
          onClick  |-> AppEntryTable[k].selects,
          category |-> AppEntryTable[k].category ]]

\* const sidebarItems = [...]: built anew on every render of App from
\* activeComponent; onClick holds the id the closure selects.
sidebarItems(active) ==
    [k \in 1..Len(AppEntryTable) |->
        [ id       |-> AppEntryTable[k].id,
          label    |-> AppEntryTable[k].label,
          icon     |-> TRUE,
          active   |-> (active = AppEntryTable[k].activeWhen),
          onClick  |-> AppEntryTable[k].selects,
          category |-> AppEntryTable[k].category ]]

\* The case labels of renderComponent's switch, in source order.
RenderCases ==
    <<
      "button", "avatar", "modal", "dropdown", "table",
      "badge", "input", "card", "alert", "tabs",
      "pagination", "tooltip", "progress", "toggle", "chip",
      "steps", "breadcrumb", "skeleton", "empty", "accordion",
      "select", "textarea", "checkbox", "radio", "slider",
      "rating", "upload", "divider", "list", "timeline",
      "tag", "notification", "spinner", "calendar", "datepicker",
      "carousel", "kpicard", "meter", "statistic", "form",
      "formfield", "formgroup", "actionsheet", "drawer", "popup",
      "collapse", "tree", "masonry", "image", "hero",
      "header", "navbar", "footer", "team", "cta",
      "faq", "authcard", "testimonial", "pricingcard", "featurecard",
      "layoutsidebar", "settingssidebar", "dashboardsidebar" >>

\* A switch whose last case label is misspelt, so that id falls to default.
renderComponent_MissingCase(active) ==
    IF \E k \in 1..(Len(RenderCases) - 1) : RenderCases[k] = active
    THEN <<active>>
    ELSE <<>>

\* renderComponent: the demonstration of the matching case (named by its
\* case label), or nothing (default: return null).
renderComponent(active) ==
    IF \E k \in 1..Len(RenderCases) : RenderCases[k] = active
    THEN <<active>>
    ELSE <<>>

\* {renderComponent()} in the content area.
ContentArea == renderComponent(activeComponent)

AppInit ==
    /\ activeComponent = "button"
    /\ items = sidebarItems(activeComponent)
    /\ collapsed = FALSE
    /\ expandedItems = <<>>
    /\ searchQuery = <<>>
    /\ lastEvent = [op |-> "mount", id |-> ""]
    /\ fired = <<>>
    /\ oddClicks = {}
    /\ lastSelected = ""
    /\ toggleClicksOdd = FALSE
    /\ rowsBeforeToggle = <<>>
    /\ CollapseAbsent
    /\ OverlaysClosed
    /\ CarouselAbsent
    /\ AccordionAbsent

\* A selection that mounts the Sidebar anew, so that its state starts over.
AppClickItem_Remounts(item) ==
    /\ ~ClickToggles(item)
    /\ Has(item, "onClick")
    /\ fired' = <<(<<"onClick", item.id>>)>>
    /\ lastEvent' = [op |-> "click", id |-> item.id]
    /\ activeComponent' = item.onClick
    /\ lastSelected' = item.id
    /\ items' = sidebarItems(activeComponent')
    /\ expandedItems' = <<>>
    /\ searchQuery' = <<>>
    /\ oddClicks' = {}
    /\ rowsBeforeToggle' = <<>>
    /\ UNCHANGED <<collapsed, toggleClicksOdd, widgetVars>>

\* A click on a row of the mounted Sidebar: the row's handler, then the
\* entry's onClick (setActiveComponent) and App's re-render, which builds
\* sidebarItems anew; the mounted Sidebar keeps its state.
AppClickItem(item) ==
    /\ RowClick(item)
    /\ IF fired' # <<>>
       THEN /\ activeComponent' = item.onClick
            /\ lastSelected' = item.id
       ELSE UNCHANGED <<activeComponent, lastSelected>>
    /\ items' = sidebarItems(activeComponent')
    /\ UNCHANGED <<collapsed, toggleClicksOdd, widgetVars>>

AppNext ==
    \/ \E item \in ClickTargets : AppClickItem(item)
    \/ \E text \in Queries : SetSearchQuery(text)
    \/ ToggleDisplayMode

AppSpec == AppInit /\ [][AppNext]_vars

(***************************************************************************)
(* Modal (950-990) and Drawer (2298-2345) as the page shell mounts them    *)
(* (9534-9560): both are rendered on every render of App, open or closed,  *)
(* and each registers a keydown listener on the document in an effect.     *)
(***************************************************************************)
\* The demonstrations whose button calls setIsModalOpen(true), and the one
\* whose button calls setIsDrawerOpen(true).
ModalOpeners == {"modal", "actionsheet", "popup"}
DrawerOpeners == {"drawer"}

\* An open overlay covers the page with its backdrop (fixed inset-0 z-50).
OverlayOpen == isModalOpen \/ isDrawerOpen

\* The other state of the page shell, which the overlay events leave alone.
OverlayFrame ==
    UNCHANGED <<items, collapsed, expandedItems, searchQuery, oddClicks,
                activeComponent, lastSelected, toggleClicksOdd,
                collapseVars, carouselVars, accordionVars>>

\* A click on a row of the Sidebar while no overlay covers it.
OverlaySelect(item) ==
    /\ ~OverlayOpen
    /\ AppClickItem(item)

\* The "Open Modal" / "Open Action Sheet" / "Open Popup" button of a demo.
OpenModal ==
    /\ ~OverlayOpen
    /\ activeComponent \in ModalOpeners
    /\ isModalOpen' = TRUE
    /\ lastEvent' = [op |-> "openModal", id |-> ""]
    /\ fired' = <<>>
    /\ rowsBeforeToggle' = <<>>
    /\ UNCHANGED isDrawerOpen
    /\ OverlayFrame

\* The "Open Drawer" button of the drawer demo.
OpenDrawer ==
    /\ ~OverlayOpen
    /\ activeComponent \in DrawerOpeners
    /\ isDrawerOpen' = TRUE
    /\ lastEvent' = [op |-> "openDrawer", id |-> ""]
    /\ fired' = <<>>
    /\ rowsBeforeToggle' = <<>>
    /\ UNCHANGED isModalOpen
    /\ OverlayFrame

\* An Escape key press: the document runs the handleEscape of the Modal and
\* that of the Drawer, registered before the "if (!isOpen) return null" of
\* either; each calls its onClose, which the page shell answers with
\* setIsModalOpen(false), setIsDrawerOpen(false).
PressEscape ==
    /\ fired' = <<(<<"onClose", "Modal">>), (<<"onClose", "Drawer">>)>>
    /\ isModalOpen' = FALSE
    /\ isDrawerOpen' = FALSE
    /\ lastEvent' = [op |-> "escape", id |-> ""]
    /\ rowsBeforeToggle' = <<>>
    /\ OverlayFrame

\* A click on the backdrop or on the x of the open Modal: onClose.
ClickModalClose ==
    /\ isModalOpen
    /\ fired' = <<(<<"onClose", "Modal">>)>>
    /\ isModalOpen' = FALSE
    /\ lastEvent' = [op |-> "closeModal", id |-> ""]
    /\ rowsBeforeToggle' = <<>>
    /\ UNCHANGED isDrawerOpen
    /\ OverlayFrame

\* Cancel or Confirm inside the Modal: setIsModalOpen(false), not onClose.
ClickModalButton ==
    /\ isModalOpen
    /\ fired' = <<>>
    /\ isModalOpen' = FALSE
    /\ lastEvent' = [op |-> "modalButton", id |-> ""]
    /\ rowsBeforeToggle' = <<>>
    /\ UNCHANGED isDrawerOpen
    /\ OverlayFrame

\* A click on the backdrop or on the x of the open Drawer: onClose.
ClickDrawerClose ==
    /\ isDrawerOpen
    /\ fired' = <<(<<"onClose", "Drawer">>)>>
    /\ isDrawerOpen' = FALSE
    /\ lastEvent' = [op |-> "closeDrawer", id |-> ""]
    /\ rowsBeforeToggle' = <<>>
    /\ UNCHANGED isModalOpen
    /\ OverlayFrame

\* The Close button inside the Drawer: setIsDrawerOpen(false), not onClose.
ClickDrawerButton ==
    /\ isDrawerOpen
    /\ fired' = <<>>
    /\ isDrawerOpen' = FALSE
    /\ lastEvent' = [op |-> "drawerButton", id |-> ""]
    /\ rowsBeforeToggle' = <<>>
    /\ UNCHANGED isModalOpen
    /\ OverlayFrame

OverlayNext ==
    \/ \E item \in ClickTargets : OverlaySelect(item)
    \/ OpenModal
    \/ OpenDrawer
    \/ PressEscape
    \/ ClickModalClose
    \/ ClickModalButton
    \/ ClickDrawerClose
    \/ ClickDrawerButton

OverlaySpec == AppInit /\ [][OverlayNext]_vars

(***************************************************************************)
(* Collapse (src/app/page.tsx 2403-2428): a container whose height follows *)
(* isOpen through an effect that measures the content and starts a timer.  *)
(* Time passes in steps of the shorter of the two delays.                  *)
(***************************************************************************)
\* The delays of the two setTimeout calls, in milliseconds.
OpenDelay == 300
CloseDelay == 10

\* How many timers may be pending at once.
MaxTimers == 2

\* The timer the effect starts for a value of isOpen: after the delay it
\* sets the height to undefined (open) or to 0 (closed).
CollapseTimer(open) ==
    IF open
    THEN [remaining |-> OpenDelay, sets |-> HeightUnset]
    ELSE [remaining |-> CloseDelay, sets |-> HeightZero]

\* The positions of the pending timers whose delay has elapsed.
ExpiredTimers == {k \in 1..Len(timers) : timers[k].remaining = 0}

\* A sequence without its k-th element.
WithoutIndex(seq, k) ==
    [j \in 1..(Len(seq) - 1) |-> IF j < k THEN seq[j] ELSE seq[j + 1]]

\* The Collapse after its first render and the first run of its effect: the
\* height is the measured one and the timer for the initial isOpen is pending.
CollapseInit ==
    /\ isOpen \in BOOLEAN
    /\ height = HeightMeasured
    /\ timers = <<CollapseTimer(isOpen)>>
    /\ PanelAbsent
    /\ OverlaysClosed
    /\ CarouselAbsent
    /\ AccordionAbsent

\* The owner renders the Collapse with another isOpen; the effect runs:
\* setHeight(scrollHeight), then setTimeout.  No pending timer is cleared.
CollapseSetIsOpen(open) ==
    /\ open # isOpen
    /\ Len(timers) < MaxTimers
    /\ isOpen' = open
    /\ height' = HeightMeasured
    /\ timers' = Append(timers, CollapseTimer(open))
    /\ UNCHANGED <<panelVars, overlayVars, carouselVars, accordionVars>>

\* A timer whose delay has elapsed runs its callback; of several, the one
\* scheduled first.
CollapseTimerFires ==
    /\ ExpiredTimers # {}
    /\ \E k \in ExpiredTimers :
          /\ \A j \in ExpiredTimers : k <= j
          /\ height' = timers[k].sets
          /\ timers' = WithoutIndex(timers, k)
    /\ UNCHANGED <<isOpen, panelVars, overlayVars, carouselVars, accordionVars>>

\* Time passes while timers are pending and none of them is due.
CollapseTick ==
    /\ timers # <<>>
    /\ ExpiredTimers = {}
    /\ timers' = [k \in 1..Len(timers) |->
                    [timers[k] EXCEPT !.remaining = @ - CloseDelay]]
    /\ UNCHANGED <<isOpen, height, panelVars, overlayVars, carouselVars,
                   accordionVars>>

CollapseNext ==
    \/ \E open \in BOOLEAN : CollapseSetIsOpen(open)
    \/ CollapseTimerFires
    \/ CollapseTick

CollapseSpec == CollapseInit /\ [][CollapseNext]_vars

(***************************************************************************)
(* Carousel (src/app/page.tsx 1967-2037): currentIndex moved by the two    *)
(* arrow buttons, the indicator dots and the auto-play interval timer.     *)
(***************************************************************************)
\* The largest number of slides.
MaxSlides == 6

\* a % n of JavaScript: the remainder has the sign of the dividend.
JsRemainder(a, n) == IF a >= 0 THEN a % n ELSE 0 - ((0 - a) % n)

\* The updater of goToNext and of the interval timer.
NextIndex(prevIndex, n) == JsRemainder(prevIndex + 1, n)

\* An updater of goToPrev without the "+ children.length".
PrevIndex_NoOffset(prevIndex, n) == JsRemainder(prevIndex - 1, n)

\* The updater of goToPrev.
PrevIndex(prevIndex, n) == JsRemainder(prevIndex - 1 + n, n)

\* The variables of the panel but lastEvent, which also records the last
\* event of a widget.
panelFrame ==
    <<items, collapsed, expandedItems, searchQuery, fired, oddClicks,
      activeComponent, lastSelected, toggleClicksOdd, rowsBeforeToggle>>

CarouselInit ==
    /\ slideCount \in 1..MaxSlides
    /\ autoPlay \in BOOLEAN
    /\ showIndicators \in BOOLEAN
    /\ currentIndex = 0
    /\ PanelAbsent
    /\ CollapseAbsent
    /\ OverlaysClosed
    /\ AccordionAbsent

\* What an event of the Carousel leaves alone.
CarouselFrame ==
    UNCHANGED <<slideCount, autoPlay, showIndicators, panelFrame,
                collapseVars, overlayVars, accordionVars>>

\* onClick of the right arrow.
goToNext ==
    /\ currentIndex' = NextIndex(currentIndex, slideCount)
    /\ lastEvent' = [op |-> "next", id |-> "", from |-> currentIndex]
    /\ CarouselFrame

\* onClick of the left arrow.
goToPrev ==
    /\ currentIndex' = PrevIndex(currentIndex, slideCount)
    /\ lastEvent' = [op |-> "prev", id |-> "", from |-> currentIndex]
    /\ CarouselFrame

\* onClick of the indicator dot of a slide; the dots are rendered only with
\* showIndicators, one per slide.
goToSlide(index) ==
    /\ showIndicators
    /\ index \in 0..(slideCount - 1)
    /\ currentIndex' = index
    /\ lastEvent' = [op |-> "goToSlide", id |-> "", from |-> currentIndex]
    /\ CarouselFrame

\* The callback of setInterval, which runs only with autoPlay.
AutoPlayTick ==
    /\ autoPlay
    /\ currentIndex' = NextIndex(currentIndex, slideCount)
    /\ lastEvent' = [op |-> "tick", id |-> "", from |-> currentIndex]
    /\ CarouselFrame

CarouselNext ==
    \/ goToNext
    \/ goToPrev
    \/ \E index \in 0..(MaxSlides - 1) : goToSlide(index)
    \/ AutoPlayTick

CarouselSpec == CarouselInit /\ [][CarouselNext]_vars

(***************************************************************************)
(* Accordion (src/app/page.tsx 302-350): openItems, the ids of the open    *)
(* items, changed by a click on the button of an item.                     *)
(***************************************************************************)
\* The largest number of items of an Accordion, and of ids in defaultOpen.
MaxAccordionItems == 3
MaxDefaultOpen == 2

AccordionIds == {"1", "2", "3"}

\* The items an owner may supply: disabled is optional.
AccordionPool ==
    { [id |-> "1"],
      [id |-> "1", disabled |-> TRUE],
      [id |-> "2", disabled |-> TRUE],
      [id |-> "3", disabled |-> FALSE] }

\* key={item.id}: the items are siblings, so their ids are pairwise distinct.
AccordionLists ==
    {list \in SeqsUpTo(AccordionPool, MaxAccordionItems) :
        /\ list # <<>>
        /\ \A j, k \in 1..Len(list) : list[j].id = list[k].id => j = k}

\* item.disabled as a condition: absent (undefined) and false are falsy.
DisabledTruthy(item) == Has(item, "disabled") /\ item.disabled

\* A toggleItem that takes the allowMultiple branch whatever the prop says.
toggleItem_AlwaysMultiple(prev, id) ==
    IF ArrIncludes(prev, id) THEN ArrWithout(prev, id) ELSE Append(prev, id)

\* toggleItem's updater, for the Accordion's allowMultiple.
toggleItem(prev, id) ==
    IF allowMultiple
    THEN (IF ArrIncludes(prev, id) THEN ArrWithout(prev, id) ELSE Append(prev, id))
    ELSE (IF ArrIncludes(prev, id) THEN <<>> ELSE <<id>>)

\* The positions of the items that are rendered open.
OpenAccordionItems ==
    {k \in 1..Len(accordionItems) : ArrIncludes(openItems, accordionItems[k].id)}

AccordionInit ==
    /\ accordionItems \in AccordionLists
    /\ allowMultiple \in BOOLEAN
    /\ defaultOpen \in SeqsUpTo(AccordionIds, MaxDefaultOpen)
    /\ openItems = defaultOpen
    /\ PanelAbsent
    /\ CollapseAbsent
    /\ OverlaysClosed
    /\ CarouselAbsent

\* onClick of the button of the k-th item: !item.disabled && toggleItem(id).
ClickAccordionItem(k) ==
    /\ k \in 1..Len(accordionItems)
    /\ openItems' = IF DisabledTruthy(accordionItems[k])
                    THEN openItems
                    ELSE toggleItem(openItems, accordionItems[k].id)
    /\ lastEvent' = [op |-> "accordionClick", id |-> accordionItems[k].id,
                     before |-> openItems]
    /\ UNCHANGED <<accordionItems, allowMultiple, defaultOpen, panelFrame,
                   collapseVars, overlayVars, carouselVars>>

AccordionNext == \E k \in 1..MaxAccordionItems : ClickAccordionItem(k)

AccordionSpec == AccordionInit /\ [][AccordionNext]_vars

(***************************************************************************)
(* Vocabulary of the properties.                                           *)
(***************************************************************************)
\* Two characters are the same letter, whatever their case.
SameLetter(c1, c2) ==
    \/ c1 = c2
    \/ c1 \in DOMAIN UpperToLower /\ UpperToLower[c1] = c2
    \/ c2 \in DOMAIN UpperToLower /\ UpperToLower[c2] = c1
    \/ /\ c1 \in DOMAIN UpperToLower
       /\ c2 \in DOMAIN UpperToLower
       /\ UpperToLower[c1] = UpperToLower[c2]

\* q occurs in s as a substring when case is ignored.
ContainsIgnoringCase(s, q) ==
    \E off \in 0..(Len(s) - Len(q)) :
        \A k \in 1..Len(q) : SameLetter(s[off + k], q[k])

\* The entry's label or its category contains q, case ignored.
Matches(item, q) ==
    \/ ContainsIgnoringCase(item.label, q)
    \/ Has(item, "category") /\ ContainsIgnoringCase(item.category, q)

\* The positions of the entry collection whose entry matches q.
MatchingPositions(q) == {i \in 1..Len(items) : Matches(items[i], q)}

\* The k-th smallest member of a set of positions.
NthPosition(P, k) == CHOOSE i \in P : Cardinality({j \in P : j < i}) = k - 1

\* The ids of the top-level entries are pairwise distinct.
UniqueIds == \A i, j \in 1..Len(items) : items[i].id = items[j].id => i = j

\* The members of a sequence.
Members(seq) == {seq[k] : k \in 1..Len(seq)}

\* An entry with a non-empty children sequence.
IsGroup(item) == Has(item, "children") /\ item.children # <<>>

\* An entry with no children: children absent, or an empty sequence.
IsLeaf(item) == ~IsGroup(item)

\* Every entry of a list of entries, nested ones included.
RECURSIVE AllEntries(_)
AllEntries(list) ==
    IF list = <<>> THEN {}
    ELSE {Head(list)}
         \cup (IF Has(Head(list), "children")
               THEN AllEntries(Head(list).children) ELSE {})
         \cup AllEntries(Tail(list))

(***************************************************************************)
(* Properties.                                                             *)
(***************************************************************************)
\* C1: the filter result is exactly the subsequence of the top-level entries
\* whose label or category contains the filter text as a case-insensitive
\* substring: nothing else is included, no match is dropped, order is kept.
C1_FilterIsMatchingSubsequence ==
    LET result == filteredItems
        pos == MatchingPositions(searchQuery)
    IN  /\ Len(result) = Cardinality(pos)
        /\ \A k \in 1..Len(result) : result[k] = items[NthPosition(pos, k)]

\* A two-letter filter text that drops the first entry and keeps the second,
\* whose label contains it only when the case of both is folded.
C1_Witness ==
    /\ lastEvent.op = "search"
    /\ Len(searchQuery) = 2
    /\ Len(items) = 2
    /\ filteredItems = <<items[2]>>
    /\ ~Matches(items[1], searchQuery)
    /\ ~StrIncludes(items[2].label, searchQuery)
    /\ ~StrIncludes(toLowerCase(items[2].label), searchQuery)
    /\ ContainsIgnoringCase(items[2].label, searchQuery)

\* C2: with unique ids and an empty filter text the filter result is the
\* entry collection itself, entries without a category included.
C2_EmptyFilterKeepsAll ==
    (UniqueIds /\ searchQuery = <<>>) => filteredItems = items

\* The filter text was typed and cleared again over two distinct entries,
\* one of them without a category.
C2_Witness ==
    /\ UniqueIds
    /\ searchQuery = <<>>
    /\ lastEvent.op = "search"
    /\ Len(items) = 2
    /\ \E i \in 1..Len(items) : ~Has(items[i], "category")
    /\ filteredItems = items

\* C3: filtering the filter result again with the same text changes nothing.
C3_FilterIdempotent ==
    FilterItems(filteredItems, searchQuery) = filteredItems

\* A non-empty filter text that keeps the first entry, by its category alone,
\* and drops the second.
C3_Witness ==
    /\ searchQuery # <<>>
    /\ Len(items) = 2
    /\ filteredItems = <<items[1]>>
    /\ ~ContainsIgnoringCase(items[1].label, searchQuery)
    /\ FilterItems(filteredItems, searchQuery) = filteredItems

\* C4: a category heading is rendered only if at least one entry of that
\* category passes the current filter text.
C4_HeadingOnlyWithMatch ==
    \A k \in 1..Len(RenderedHeadings) :
        \E i \in 1..Len(filteredItems) :
            /\ Has(filteredItems[i], "category")
            /\ filteredItems[i].category = RenderedHeadings[k]

\* C5: the results indicator is rendered exactly when the filter text is
\* non-empty, and its count is the number of entries left by the filter.
C5_ResultsIndicator ==
    /\ (ResultsIndicator # <<>>) <=> (searchQuery # <<>>)
    /\ ResultsIndicator # <<>> =>
          /\ Len(ResultsIndicator) = 1
          /\ ResultsIndicator[1].count = Cardinality(MatchingPositions(searchQuery))
          /\ ResultsIndicator[1].query = searchQuery

\* An indicator whose count differs from the number of rendered rows: one
\* entry left by the filter has no category, and an expanded group adds rows.
C5_Witness ==
    /\ ResultsIndicator # <<>>
    /\ ResultsIndicator[1].count = 2
    /\ Len(RenderedRows) = 3
    /\ \E i \in 1..Len(filteredItems) : ~Has(filteredItems[i], "category")

\* C6: two successive toggles of the id of an entry with children give back
\* the expanded-set (same membership for every id), and one toggle flips the
\* membership of that id and of no other.
C6_ToggleInvolution ==
    \A item \in AllEntries(items) :
        IsGroup(item) =>
            LET once == toggleExpanded(expandedItems, item.id)
                twice == toggleExpanded(once, item.id)
            IN  /\ Members(twice) = Members(expandedItems)
                /\ (item.id \in Members(once)) <=> (item.id \notin Members(expandedItems))
                /\ Members(once) \ {item.id} = Members(expandedItems) \ {item.id}

\* A group was clicked while another id was already expanded before it, so
\* that toggling the first id twice reorders the array.
C6_Witness ==
    /\ lastEvent.op = "click"
    /\ Len(expandedItems) >= 2
    /\ \E item \in AllEntries(items) :
          /\ IsGroup(item)
          /\ expandedItems[1] = item.id
          /\ toggleExpanded(toggleExpanded(expandedItems, item.id), item.id)
                # expandedItems

\* C7: clicking a leaf entry (children absent or empty) never changes the
\* expanded-set.
C7_LeafClickKeepsExpanded ==
    [][\A item \in ClickTargets :
          (ClickItem(item) /\ IsLeaf(item)) => expandedItems' = expandedItems]_vars

\* C8: clicking an entry with a non-empty children sequence flips that
\* entry's membership in the expanded-set and does not invoke its onClick;
\* no click both changes the expanded-set and invokes a callback.
C8_GroupClickTogglesOnly ==
    [][\A item \in ClickTargets :
          ClickItem(item) =>
              /\ IsGroup(item) =>
                    /\ (item.id \in Members(expandedItems'))
                           <=> (item.id \notin Members(expandedItems))
                    /\ <<"onClick", item.id>> \notin Members(fired')
              /\ ~(expandedItems' # expandedItems /\ fired' # <<>>)]_vars

\* The group "d", which has an onClick of its own, was clicked and is now
\* expanded, and no callback was invoked.
C8_Witness ==
    /\ lastEvent = [op |-> "click", id |-> "d"]
    /\ "d" \in Members(expandedItems)
    /\ fired = <<>>
    /\ \E item \in ClickTargets :
          item.id = "d" /\ IsGroup(item) /\ Has(item, "onClick")

\* The child rows of the row at position k of the rendered rows are visible:
\* every child follows it as a row one level deeper.
ChildRowsVisibleAt(rows, k) ==
    /\ k < Len(rows)
    /\ rows[k + 1].level = rows[k].level + 1
    /\ \A c \in Members(rows[k].item.children) :
          \E m \in (k + 1)..Len(rows) :
              rows[m].item = c /\ rows[m].level = rows[k].level + 1

\* The child rows of a rendered group entry are visible.
ChildRowsVisible(item) ==
    \E rows \in {RenderedRows} :
        \E k \in 1..Len(rows) : rows[k].item = item /\ ChildRowsVisibleAt(rows, k)

\* C9: in expanded mode the child rows of a rendered group are visible
\* exactly when its id is in the expanded-set; the expanded-set starts empty
\* (children hidden), and the children are visible after an odd number of
\* clicks on the group and hidden again after an even number.
C9_ChildrenVisibleIffExpanded ==
    /\ lastEvent.op = "mount" => expandedItems = <<>>
    /\ ~collapsed =>
          \A rows \in {RenderedRows} :
              \A k \in 1..Len(rows) :
                  IsGroup(rows[k].item) =>
                      /\ ChildRowsVisibleAt(rows, k)
                             <=> rows[k].item.id \in Members(expandedItems)
                      /\ ChildRowsVisibleAt(rows, k)
                             <=> rows[k].item.id \in oddClicks

\* The group "d" was clicked in expanded mode and its two child rows are
\* rendered one level below it; the nested group "d2" is still closed.
C9_Witness ==
    /\ ~collapsed
    /\ lastEvent = [op |-> "click", id |-> "d"]
    /\ expandedItems = <<"d">>
    /\ \E item \in ClickTargets :
          /\ item.id = "d"
          /\ ChildRowsVisible(item)
          /\ \A c \in Members(item.children) : c \in ClickTargets
          /\ \A c \in Members(item.children) : IsGroup(c) => ~ChildRowsVisible(c)

\* C10: when displayMode is collapsed no category heading is rendered.
C10_NoHeadingWhenCollapsed ==
    collapsed => RenderedHeadings = <<>>

\* C11 as stated: after a switch from expanded to collapsed mode, every entry
\* that had a click target before, visible children of expanded groups
\* included, still has one.
C11_AllTargetsSurviveCollapse ==
    (lastEvent.op = "toggle" /\ collapsed) =>
        \A k \in 1..Len(rowsBeforeToggle) :
            rowsBeforeToggle[k].item \in ClickTargets

\* C11, amended: after a switch from expanded to collapsed mode, every
\* top-level entry that had a click target before still has one, and the
\* rows of children of expanded groups are not rendered.
C11_TopLevelTargetsSurviveCollapse ==
    (lastEvent.op = "toggle" /\ collapsed) =>
        \A rows \in {RenderedRows} :
            /\ \A k \in 1..Len(rowsBeforeToggle) :
                  rowsBeforeToggle[k].level = 0 =>
                      \E m \in 1..Len(rows) :
                          /\ rows[m].item = rowsBeforeToggle[k].item
                          /\ rows[m].level = 0
            /\ \A m \in 1..Len(rows) : rows[m].level = 0

\* The panel was collapsed while an expanded group showed its children: the
\* group's row is still rendered, the rows of its children are not.
C11_Witness ==
    /\ lastEvent.op = "toggle"
    /\ collapsed
    /\ \E k \in 1..Len(rowsBeforeToggle) :
          /\ rowsBeforeToggle[k].level = 1
          /\ rowsBeforeToggle[k].item \notin ClickTargets
    /\ \E k \in 1..Len(rowsBeforeToggle) :
          /\ rowsBeforeToggle[k].level = 0
          /\ IsGroup(rowsBeforeToggle[k].item)
          /\ rowsBeforeToggle[k].item \in ClickTargets

\* C12: a change of the filter text leaves the expanded-set unchanged, a row
\* click (toggle or leaf selection) leaves the filter text unchanged, and a
\* display-mode click leaves both unchanged; so an id is in the expanded-set
\* exactly when its rows were clicked an odd number of times, whatever was
\* typed, filtered out, collapsed or re-expanded in between.
C12_FrameEffects ==
    [][/\ lastEvent'.op = "search" => expandedItems' = expandedItems
       /\ lastEvent'.op = "click" => searchQuery' = searchQuery
       /\ lastEvent'.op = "toggle" =>
             expandedItems' = expandedItems /\ searchQuery' = searchQuery
       /\ Members(expandedItems) = oddClicks
       /\ Members(expandedItems') = oddClicks']_vars

\* The group "d" was expanded and a filter text typed afterwards has filtered
\* it out; its id is still in the expanded-set.
C12_Witness ==
    /\ lastEvent.op = "search"
    /\ "d" \in Members(expandedItems)
    /\ \E i \in 1..Len(items) : items[i].id = "d"
    /\ \A i \in 1..Len(filteredItems) : filteredItems[i].id # "d"

\* C13: in the page shell, selecting a leaf makes App render again and hand
\* the Sidebar a freshly built entry array (the one built from the new
\* activeComponent); the Sidebar's filter text and expanded-set are the same
\* after the selection as before it.
C13_SelectionKeepsSidebarState ==
    [][(lastEvent'.op = "click" /\ fired' # <<>>) =>
          /\ activeComponent' = lastEvent'.id
          /\ items' = sidebarItems(activeComponent')
          /\ searchQuery' = searchQuery
          /\ expandedItems' = expandedItems]_vars

\* A leaf other than the one active before was selected while a filter text
\* was typed in: the entry array differs from the initial one and the filter
\* text is still there.
C13_Witness ==
    /\ lastEvent = [op |-> "click", id |-> "hero"]
    /\ fired = <<(<<"onClick", "hero">>)>>
    /\ items # sidebarItems("button")
    /\ items = sidebarItems("hero")
    /\ searchQuery = <<"h", "E">>

\* C14: each click on the display-mode control invokes onToggle exactly once
\* and changes nothing else of the panel; in the page shell each click flips
\* collapsed, so collapsed holds exactly after an odd number of clicks.
C14_ToggleInvokesOnToggleOnce ==
    [][/\ lastEvent'.op = "toggle" =>
             /\ fired' = <<(<<"onToggle", "">>)>>
             /\ expandedItems' = expandedItems
             /\ searchQuery' = searchQuery
             /\ collapsed' = ~collapsed
       /\ collapsed <=> toggleClicksOdd
       /\ collapsed' <=> toggleClicksOdd']_vars

\* The display-mode control was clicked an even number of times, at least
\* twice, and the panel is expanded again.
C14_Witness ==
    /\ lastEvent.op = "toggle"
    /\ ~toggleClicksOdd
    /\ ~collapsed
    /\ fired = <<(<<"onToggle", "">>)>>

\* C16: in the page shell at most one entry has active = true, and it is the
\* entry selected most recently ('button' before any selection).
C16_OneActiveEntry ==
    /\ Cardinality({i \in 1..Len(items) : items[i].active}) <= 1
    /\ \A i \in 1..Len(items) :
          items[i].active =>
              items[i].id = IF lastSelected = "" THEN "button" ELSE lastSelected

\* An entry other than 'button' was selected and it is the active one.
C16_Witness ==
    /\ lastSelected = "faq"
    /\ \E i \in 1..Len(items) : items[i].id = "faq" /\ items[i].active
    /\ \E i \in 1..Len(items) : items[i].id = "button" /\ ~items[i].active

\* C17: renderComponent has a case for every id of the page shell's entries,
\* so the content area is never empty and, after a selection, shows the
\* demonstration of the selected entry.
C17_EveryEntryHasADemo ==
    /\ \A i \in 1..Len(items) : renderComponent(items[i].id) # <<>>
    /\ ContentArea # <<>>
    /\ lastSelected # "" => ContentArea = <<lastSelected>>

\* The last entry of the list was selected and its demonstration is shown.
C17_Witness ==
    /\ lastSelected = "dashboardsidebar"
    /\ lastEvent = [op |-> "click", id |-> "dashboardsidebar"]
    /\ ContentArea = <<"dashboardsidebar">>

\* The positions of the entries tagged with a category.
PositionsOfCategory(category) ==
    {i \in 1..Len(items) :
        Has(items[i], "category") /\ items[i].category = category}

\* The first position of a nonempty set of positions.
FirstPosition(P) == CHOOSE i \in P : \A j \in P : i <= j

\* A row of a top-level entry.
IsTopLevelRow(row) == row.level = 0

C18_SharedIdTogglesTogether ==
    \A rows \in {RenderedRows} :
        \A k \in 1..Len(rows) :
            IsGroup(rows[k].item) =>
                /\ rows[k].rotated <=> (~collapsed /\ rows[k].item.id \in oddClicks)
                /\ ChildRowsVisibleAt(rows, k)
                      <=> (~collapsed /\ rows[k].item.id \in oddClicks)

\* Two different top-level groups share the id "d"; after a single click on
\* one of them the rows of both show their children.
C18_Witness ==
    /\ lastEvent = [op |-> "click", id |-> "d"]
    /\ expandedItems = <<"d">>
    /\ Len(items) = 2
    /\ items[1] # items[2]
    /\ items[1].id = "d" /\ items[2].id = "d"
    /\ \A rows \in {RenderedRows} :
          \E j, k \in 1..Len(rows) :
              /\ rows[j].item = items[1] /\ rows[j].level = 0
              /\ rows[k].item = items[2] /\ rows[k].level = 0
              /\ ChildRowsVisibleAt(rows, j)
              /\ ChildRowsVisibleAt(rows, k)

\* C19: in collapsed mode every rendered row shows at most its icon: no
\* label, no badge and no expand indicator; in expanded mode every row shows
\* its label, its badge when it has one, and an expand indicator exactly when
\* it has children.
C19_RowContentsByMode ==
    \A rows \in {RenderedRows} :
        \A k \in 1..Len(rows) :
            /\ rows[k].icon <=> Has(rows[k].item, "icon")
            /\ collapsed =>
                  ~rows[k].label /\ ~rows[k].badge /\ ~rows[k].indicator
            /\ ~collapsed =>
                  /\ rows[k].label
                  /\ rows[k].badge <=> Has(rows[k].item, "badge")
                  /\ rows[k].indicator <=> IsGroup(rows[k].item)

\* The row that renders the parent of the row at position k: the nearest
\* earlier row of a lesser level.
ParentRowPosition(rows, k) ==
    CHOOSE j \in 1..(k - 1) :
        /\ rows[j].level < rows[k].level
        /\ \A m \in (j + 1)..(k - 1) : rows[m].level >= rows[k].level

\* C21: the left inset of a row at nesting depth d is d * 12 + 12 pixels: a
\* top-level row has inset 12, and the row of a child has the inset of its
\* parent's row plus 12, at every depth.
C21_InsetProportionalToDepth ==
    \A rows \in {RenderedRows} :
        \A k \in 1..Len(rows) :
            /\ rows[k].level >= 0
            /\ rows[k].paddingLeft = rows[k].level * 12 + 12
            /\ rows[k].level = 0 =>
                  /\ rows[k].item \in Members(filteredItems)
                  /\ rows[k].paddingLeft = 12
            /\ rows[k].level > 0 =>
                  /\ \E j \in 1..(k - 1) : rows[j].level < rows[k].level
                  /\ \A p \in {ParentRowPosition(rows, k)} :
                        /\ rows[k].item \in Members(rows[p].item.children)
                        /\ rows[k].level = rows[p].level + 1
                        /\ rows[k].paddingLeft = rows[p].paddingLeft + 12

\* A group and the group nested in it are both expanded: rows at depths 0, 1
\* and 2 are rendered, with insets 12, 24 and 36.
C21_Witness ==
    \A rows \in {RenderedRows} :
        \E i, j, k \in 1..Len(rows) :
            /\ i < j /\ j < k
            /\ rows[i].item.id = "d"  /\ rows[i].paddingLeft = 12
            /\ rows[j].item.id = "d2" /\ rows[j].paddingLeft = 24
            /\ rows[k].item.id = "d3" /\ rows[k].paddingLeft = 36

\* C22: every top-level entry that passes the filter is rendered as exactly
\* one row, with or without a category: the top-level rows are the entries
\* of the filter result, one row each, so the count of the results indicator
\* is the number of top-level rows.
C22_EveryFilteredEntryHasOneRow ==
    \A rows \in {RenderedRows} :
        LET top == SelectSeq(rows, IsTopLevelRow)
        IN  /\ Len(top) = Len(filteredItems)
            /\ \A i \in 1..Len(filteredItems) :
                  \E k \in 1..Len(top) : top[k].item = filteredItems[i]
            /\ \A n \in 1..Len(ResultsIndicator) :
                  ResultsIndicator[n].count = Len(top)

\* C23: after any sequence of toggles from the initial state the expanded-set
\* holds no id twice, an id is in it exactly when it was toggled an odd
\* number of times, and its size is the number of such ids.
C23_ExpandedSetHasNoDuplicates ==
    /\ \A j, k \in 1..Len(expandedItems) :
          expandedItems[j] = expandedItems[k] => j = k
    /\ Members(expandedItems) = oddClicks
    /\ Len(expandedItems) = Cardinality(oddClicks)

\* Three ids were opened and the last click closed one of them again: the
\* two others are still in the expanded-set, the closed one is not.
C23_Witness ==
    /\ lastEvent.op = "click"
    /\ Len(expandedItems) = 2
    /\ lastEvent.id \notin Members(expandedItems)
    /\ \E item \in AllEntries(items) :
          item.id = lastEvent.id /\ Has(item, "children")

\* The row of the top-level entry under which the row at position k is
\* rendered: the nearest row of level 0 at or before k.
TopRowPosition(rows, k) ==
    CHOOSE j \in 1..k :
        rows[j].level = 0 /\ \A m \in (j + 1)..k : rows[m].level > 0

C25_FilterTextKeptWhileCollapsed ==
    [][/\ (collapsed \/ lastEvent'.op = "toggle") => searchQuery' = searchQuery
       /\ collapsed =>
             /\ ~SearchInputShown
             /\ \A rows \in {RenderedRows} :
                   \A k \in 1..Len(rows) : Matches(rows[k].item, searchQuery)
             /\ searchQuery # <<>> =>
                   ResultsIndicator =
                       <<[count |-> Len(filteredItems), query |-> searchQuery]>>
       /\ ~collapsed => SearchInputShown /\ SearchInputValue = searchQuery]_vars

\* A filter text that drops an entry was typed, the panel was collapsed and
\* has just been re-expanded: the filter text is still there.
C25_Witness ==
    /\ lastEvent.op = "toggle"
    /\ ~collapsed
    /\ ~toggleClicksOdd
    /\ searchQuery = <<"h", "E">>
    /\ SearchInputValue = <<"h", "E">>
    /\ Len(filteredItems) < Len(items)
    /\ ResultsIndicator # <<>>

\* C26: the "No components found" message is rendered exactly when no
\* top-level entry matches the filter text, and whenever it is rendered no
\* entry row is rendered.
C26_EmptyMessageIffNoMatch ==
    /\ EmptyMessageShown <=> MatchingPositions(searchQuery) = {}
    /\ EmptyMessageShown => RenderedRows = <<>>

\* A filter text that no entry of a non-empty collection matches was typed:
\* the message is shown and there is no row.
C26_Witness ==
    /\ lastEvent.op = "search"
    /\ Len(items) = 2
    /\ searchQuery # <<>>
    /\ EmptyMessageShown
    /\ ClickTargets = {}

\* C27: once every pending timer of a Collapse has fired, the height is 0
\* when isOpen is false and unset (auto) when isOpen is true, whatever the
\* sequence and timing of the isOpen changes before.
C27_HeightSettles ==
    timers = <<>> => height = IF isOpen THEN HeightUnset ELSE HeightZero

\* C28: an Escape key press invokes the onClose of the Modal only while the
\* Modal's isOpen is true, and that of the Drawer only while the Drawer's
\* isOpen is true; while an overlay is closed an Escape key press does not
\* invoke its onClose.
C28_EscapeClosesOnlyOpenOverlay ==
    [][lastEvent'.op = "escape" =>
          /\ (<<"onClose", "Modal">>) \in Members(fired') => isModalOpen
          /\ (<<"onClose", "Drawer">>) \in Members(fired') => isDrawerOpen]_vars

\* C29: for a Carousel with n >= 1 slides, after any interleaving of next,
\* previous, go-to-slide and auto-play ticks, currentIndex is in 0..n-1;
\* next (and a tick) from n-1 gives 0, otherwise one more; previous from 0
\* gives n-1, otherwise one less.
C29_CurrentIndexInRange ==
    /\ slideCount >= 1
    /\ currentIndex \in 0..(slideCount - 1)
    /\ lastEvent.op \in {"next", "tick"} =>
          currentIndex = IF lastEvent.from = slideCount - 1
                         THEN 0 ELSE lastEvent.from + 1
    /\ lastEvent.op = "prev" =>
          currentIndex = IF lastEvent.from = 0
                         THEN slideCount - 1 ELSE lastEvent.from - 1

\* The left arrow was clicked on the first of several slides of an
\* auto-playing Carousel: the last slide is shown.
C29_Witness ==
    /\ slideCount >= 3
    /\ autoPlay
    /\ lastEvent.op = "prev"
    /\ lastEvent.from = 0
    /\ currentIndex = slideCount - 1

\* C30: for an Accordion with allowMultiple = false whose defaultOpen holds
\* at most one id, at most one item is open after any sequence of item
\* clicks; and a click on a disabled item never changes the open items.
C30_AtMostOneOpen ==
    /\ (~allowMultiple /\ Cardinality(Members(defaultOpen)) <= 1) =>
          /\ Cardinality(OpenAccordionItems) <= 1
          /\ Cardinality(Members(openItems)) <= 1
    /\ \A k \in 1..Len(accordionItems) :
          (/\ lastEvent.op = "accordionClick"
           /\ lastEvent.id = accordionItems[k].id
           /\ DisabledTruthy(accordionItems[k]))
              => openItems = lastEvent.before

\* In a single-open Accordion that started with item 1 open, item 3 was
\* opened in its place, and the last click, on the disabled item 2, has
\* changed nothing.
C30_Witness ==
    /\ ~allowMultiple
    /\ defaultOpen = <<"1">>
    /\ Len(accordionItems) = 3
    /\ lastEvent.op = "accordionClick"
    /\ lastEvent.id = "2"
    /\ lastEvent.before = <<"3">>
    /\ openItems = <<"3">>
    /\ Cardinality(OpenAccordionItems) = 1

====
